---- MODULE Spec2Model ----
(***************************************************************************)
(* Model of tutorial/afu_types/01_pim_ifc/dma/sw/dma.c: the host driver of *)
(* the tutorial DMA engine.  One call of dma() is followed step by step:   *)
(* validation, buffer set-up, the host-to-DDR transfer, its bandwidth      *)
(* measurement, the zeroing of the buffer, the DDR-to-host transfer, its   *)
(* measurement, the comparison and the release.  The engine runs           *)
(* concurrently with the driver.                                           *)
(*                                                                         *)
(* Numbers: TLC integers are 32-bit signed.  A 64-bit word that may have   *)
(* bit 31 or above set (an address, a descriptor field) is the record      *)
(* [hi, lo] with lo its bits 0..30 and hi its bits 31..63, so its value is *)
(* hi * 2^31 + lo.  Every other quantity the model computes stays below    *)
(* 2^31 (the one uint32 wrap, in dma_len, is written out).  A double is    *)
(* [k, n, d]: the rational n/d when k = "num", +infinity when k = "inf",   *)
(* NaN when k = "nan".                                                     *)
(***************************************************************************)
EXTENDS Integers, Sequences, FiniteSets, TLC

(* ------------------------------------------------------------------ *)
(* Constants of dma.c                                                  *)
(* ------------------------------------------------------------------ *)
DMA_BUFFER_SIZE == 1024 * 1024
TEST_BUFFER_SIZE_ASE == 2048 * 1024
TEST_BUFFER_SIZE_HW == 2048 * 1024

(* Constants of dma.h (not among the sources; taken from the register     *)
(* layout, the line size and the threshold the specification states).     *)
DMA_LINE_SIZE == 64
DMA_CSR_IDX_SRC_ADDR == 5
DMA_CSR_IDX_DEST_ADDR == 6
DMA_CSR_IDX_LENGTH == 7
DMA_CSR_IDX_DESCRIPTOR_CONTROL == 8
DMA_CSR_IDX_STATUS == 9
DMA_CSR_IDX_RD_SRC_PERF_CNTR == 17
DMA_CSR_IDX_WR_DEST_PERF_CNTR == 18
MODE_SHIFT == 26
host_to_ddr == 1
ddr_to_host == 2
\* DMA_HOST_MASK is bit 49 of a 64-bit address: bit 18 of the high part.
DMA_HOST_MASK == [hi |-> 262144, lo |-> 0]
\* uptime * MAX_TRPT_BYTES / 1000.0 is a bandwidth in GB/s.
MAX_TRPT_BYTES == 25600
\* 8.2 GB/s, as the rational 41/5.
MIN_TRPT_GBPS == [n |-> 41, d |-> 5]

FPGA_OK == "FPGA_OK"
FPGA_EXCEPTION == "FPGA_EXCEPTION"
fpga_result == {FPGA_OK, FPGA_EXCEPTION}

(* ------------------------------------------------------------------ *)
(* Bounds of the model                                                 *)
(* ------------------------------------------------------------------ *)
\* The engine may deliver up to MaxCorrupt wrong bytes in one transfer.
MaxCorrupt == 2

\* At most MaxFaults register accesses fail in one run.
MaxFaults == 1

\* Byte offsets of the host buffer the engine may deliver wrong.
CorruptOffsets == {8 * j + 1 : j \in 1..MaxCorrupt}

\* The transfer sizes a caller passes (bytes).
TransferSizes == {0, 64, 100, 1048576, 2097152, 2097216}

\* What the uninitialized test_buffer_size may hold when it is read.
UninitSizes == {0, 2097152, 2097153}

\* Raw performance-counter words: valid count in bits 0..19, clock count
\* in bits 20..39.  <<valid, clk>> pairs, packed by CounterWord.
\* 12.8 GB/s, 8.0 GB/s, 0/0 and 5/0.
CounterSamples == {<<50, 100>>, <<40, 128>>, <<0, 0>>, <<5, 0>>}

CounterWord(s) == s[2] * 1048576 + s[1]

(* ------------------------------------------------------------------ *)
(* Arithmetic helpers                                                  *)
(* ------------------------------------------------------------------ *)
Min(a, b) == IF a < b THEN a ELSE b

RECURSIVE GCD(_, _)
GCD(a, b) == IF b = 0 THEN a ELSE GCD(b, a % b)

\* The double n/d (d > 0), in lowest terms.
DNum(n, d) ==
  LET g == GCD(IF n < 0 THEN -n ELSE n, d)
  IN  IF n = 0 THEN [k |-> "num", n |-> 0, d |-> 1]
      ELSE [k |-> "num", n |-> n \div g, d |-> d \div g]

DInf == [k |-> "inf", n |-> 1, d |-> 0]
DNaN == [k |-> "nan", n |-> 0, d |-> 0]

\* (a * 1.0) / (b * 1.0) for unsigned a, b: IEEE division, no trap.
DDiv(a, b) ==
  IF b # 0 THEN DNum(a, b)
  ELSE IF a = 0 THEN DNaN ELSE DInf

\* x * m / q for a double x and positive integers m, q.
DScale(x, m, q) == IF x.k = "num" THEN DNum(x.n * m, x.d * q) ELSE x

\* x < t for a double x and a rational t: false for NaN and +infinity.
DLess(x, t) == x.k = "num" /\ x.n * t.d < t.n * x.d

\* x >= t: false for NaN.
DAtLeast(x, t) == x.k = "inf" \/ (x.k = "num" /\ x.n * t.d >= t.n * x.d)

\* (x + y) / 2 for non-negative doubles.
DAvg(x, y) ==
  IF x.k = "nan" \/ y.k = "nan" THEN DNaN
  ELSE IF x.k = "inf" \/ y.k = "inf" THEN DInf
  ELSE DNum(x.n * y.d + y.n * x.d, 2 * x.d * y.d)

\* The int or double -1, and x == -1 (false for NaN).
DSentinel == [k |-> "num", n |-> -1, d |-> 1]
DIsSentinel(x) == x = DSentinel

\* The 64-bit word of a value below 2^31.
W64(v) == [hi |-> 0, lo |-> v]

\* a | m for a 64-bit a and a one-bit mask m in the high part.
Or64(a, m) ==
  [hi |-> IF (a.hi \div m.hi) % 2 = 1 THEN a.hi ELSE a.hi + m.hi, lo |-> a.lo]

\* a & 0xFFFFFFFF: bits 0..30 and bit 31.
And32(a) == [hi |-> a.hi % 2, lo |-> a.lo]

\* a % 64 (64 divides 2^31).
Mod64(a) == a.lo % 64

\* Device-visible addresses fpgaGetIOAddress may return.
IovaValues == {W64(65536), W64(65568)}

(* ------------------------------------------------------------------ *)
(* The ascending pattern word[i] = i, byte by byte (little endian)      *)
(* ------------------------------------------------------------------ *)
\* Byte b of the pattern.
PatByte(b) ==
  LET i == b \div 8
      j == b % 8
  IN  IF j = 0 THEN i % 256
      ELSE IF j = 1 THEN (i \div 256) % 256
      ELSE IF j = 2 THEN (i \div 65536) % 256
      ELSE 0

\* Among the words 0..n-1 (n <= 2^24), how many have byte j equal to 0.
ZeroBytes(n, j) ==
  IF j = 0 THEN (n \div 256) + Min(n % 256, 1)
  ELSE IF j = 1 THEN (n \div 65536) * 256 + Min(n % 65536, 256)
  ELSE IF j = 2 THEN Min(n, 65536)
  ELSE n

\* The number of non-zero bytes in the first n words of the pattern.
NonZeroPatBytes(n) ==
  (n - ZeroBytes(n, 0)) + (n - ZeroBytes(n, 1)) + (n - ZeroBytes(n, 2))

\* Byte b of a buffer whose first p words hold the pattern, the rest 0,
\* and whose bytes at the offsets F were delivered inverted.
HostByte(p, F, b) ==
  LET base == IF b \div 8 < p THEN PatByte(b) ELSE 0
  IN  IF b \in F THEN 255 - base ELSE base

\* The number of bytes in [0, L) at which that buffer differs from the
\* pattern (L a multiple of 8).
MismatchBytes(p, F, L) ==
  LET n  == L \div 8
      q  == Min(p, n)
      Fl == {b \in F : b < L}
  IN  (NonZeroPatBytes(n) - NonZeroPatBytes(q))
      - Cardinality({b \in Fl : b \div 8 >= q /\ PatByte(b) # 0})
      + Cardinality({b \in Fl : HostByte(q, F, b) # PatByte(b)})

(* ------------------------------------------------------------------ *)
(* Pure functions of dma.c                                             *)
(* ------------------------------------------------------------------ *)
\* Variant: the assert on the multiple of 64 is missing.
SizeAssertsNoLineCheck(is_ase_sim, size, u) ==
  IF is_ase_sim THEN size <= TEST_BUFFER_SIZE_ASE
                ELSE u <= TEST_BUFFER_SIZE_HW

\* The two asserts on the size at the head of run_basic_ddr_dma_test.
\* u is what the uninitialized test_buffer_size holds.
SizeAssertsHold(is_ase_sim, size, u) ==
  /\ size % 64 = 0
  /\ IF is_ase_sim THEN size <= TEST_BUFFER_SIZE_ASE
                   ELSE u <= TEST_BUFFER_SIZE_HW

\* 2^32 / DMA_LINE_SIZE.
U32_LINES == 67108864

\* ((test_buffer_size - 1) / DMA_LINE_SIZE) + 1 in uint32, for the int
\* size assigned to test_buffer_size.  A size of 0 or below is taken modulo
\* 2^32 by the assignment and the subtraction: the dividend is
\* 2^32 + size - 1 = 64 * U32_LINES + (size - 1), whose quotient by 64 is
\* U32_LINES + floor((size - 1) / 64); that floor is written
\* floor((size + 63) / 64) - 1, which stays in range down to INT_MIN.
DmaLen(size) ==
  IF size <= 0
    THEN (U32_LINES
            + (((size + (DMA_LINE_SIZE - 1)) \div DMA_LINE_SIZE) - 1)) + 1
  ELSE ((size - 1) \div DMA_LINE_SIZE) + 1

\* Variant: the assert on dev_src is missing.
AlignAssertsSrcUnchecked(dev_src, dev_dest) ==
  Mod64(dev_dest) = 0

\* The two alignment asserts of dma_transfer.
AlignAssertsHold(dev_src, dev_dest) ==
  Mod64(dev_src) = 0 /\ Mod64(dev_dest) = 0

\* 0x80000000 | (descriptor_mode << MODE_SHIFT).
ControlWord(descriptor_mode) ==
  [hi |-> 1, lo |-> descriptor_mode * (2 ^ MODE_SHIFT)]

\* The descriptor dma_transfer builds.
BuildDescriptor(descriptor_mode, dev_src, dev_dest, len) ==
  [src_address  |-> And32(dev_src),
   dest_address |-> And32(dev_dest),
   len          |-> W64(len),
   control      |-> ControlWord(descriptor_mode)]

\* Variant: the destination is written before the source.
DescFieldDestFirst(d, f) ==
  IF f = 0 THEN d.dest_address
  ELSE IF f = 1 THEN d.src_address
  ELSE IF f = 2 THEN d.len
  ELSE d.control

\* Field f (0..3) of a descriptor, in the order send_descriptor writes.
DescField(d, f) ==
  IF f = 0 THEN d.src_address
  ELSE IF f = 1 THEN d.dest_address
  ELSE IF f = 2 THEN d.len
  ELSE d.control

DMA_DESC_BASE == 8 * DMA_CSR_IDX_SRC_ADDR
DMA_STATUS_BASE == 8 * DMA_CSR_IDX_STATUS

\* Variant: the loop is never entered.
StillBusyNever(data) == FALSE

\* while ((mmio_data & 0x1) == 0x1)
StillBusy(data) == data % 2 = 1

\* The bandwidth of one counter word: valid / clk * MAX_TRPT_BYTES / 1000.
CounterBandwidth(perf_cntr) ==
  LET valid_cnt == perf_cntr % 1048576
      clk_cnt   == (perf_cntr \div 1048576) % 1048576
      uptime    == DDiv(valid_cnt, clk_cnt)
  IN  DScale(uptime, MAX_TRPT_BYTES, 1000)

\* read_bandwidth < MIN_TRPT_GBPS, write_bandwidth < MIN_TRPT_GBPS.
BelowMinimum(bandwidth) == DLess(bandwidth, MIN_TRPT_GBPS)

\* get_bandwidth on the two counter words it reads.
get_bandwidth(rd_src_perf_cntr, wr_dest_perf_cntr) ==
  LET read_bandwidth  == CounterBandwidth(rd_src_perf_cntr)
      write_bandwidth == CounterBandwidth(wr_dest_perf_cntr)
  IN  IF BelowMinimum(read_bandwidth) THEN DSentinel
      ELSE IF BelowMinimum(write_bandwidth) THEN DSentinel
      ELSE DAvg(read_bandwidth, write_bandwidth)

\* Variant: only the second measurement is looked at.
ViolationOfLastOnly(a2h, h2a) == DIsSentinel(a2h)

\* (a2h_bw == -1) || h2a_bw == -1
BandwidthViolation(a2h, h2a) == DIsSentinel(a2h) \/ DIsSentinel(h2a)

\* num_errors after the memcmp over k differing bytes.
CountErrors(num_errors, k) == IF k # 0 THEN num_errors + 1 ELSE num_errors

(* ------------------------------------------------------------------ *)
(* State                                                               *)
(* ------------------------------------------------------------------ *)
VARIABLES
  pc,                    \* where the driver is
  s_is_ase_sim,          \* file-scope state of dma.c
  s_mmio_buf,            \* "NULL" or "mapped"
  s_error_count,
  transfer_size,         \* locals of run_basic_ddr_dma_test
  test_buffer_size,
  dma_len,
  test_buffer_word_size,
  num_errors,
  dma_buf_ptr,           \* "NULL" or "buf"
  dma_buf_wsid,          \* "uninit" or "wsid"
  dma_buf_iova,          \* IovaUninit or a 64-bit word
  h2a_bw,                \* DUnset or a double
  a2h_bw,
  returned,              \* run_basic_ddr_dma_test has returned,
  ret,                   \* and the value it returned
  mode,                  \* locals of dma_transfer
  desc,
  send_n,                \* descriptor fields written so far in this call
  mmio_data,
  allocated,             \* the host buffer: is it held, its content
  hostPat,
  hostFlip,
  csr,                   \* the engine: descriptor registers, queue, memory
  primed,
  engQ,
  engBusy,
  devPat,
  wrLog,                 \* history: every fpgaWriteMMIO64 of the run
  faults,                \* register accesses that failed
  afterFault,            \* a register access was made after a failed one
  overlap,               \* dma_transfer returned with a descriptor unfinished
  firstStatus,           \* first status bit read in this dma_transfer, or NoStatus
  sawBusy,               \* a status read of this dma_transfer had bit 0 set
  events,                \* milestones of the run, in order
  releases,              \* the wsid of every fpgaReleaseBuffer call
  oob,                   \* an access went beyond the host allocation
  perf,                  \* counter words get_bandwidth has just read
  cmpK                   \* bytes that differed in the memcmp, or NotCompared

globals == <<s_is_ase_sim, s_mmio_buf, s_error_count>>
sizes   == <<transfer_size, test_buffer_size, dma_len, test_buffer_word_size>>
bufvars == <<dma_buf_ptr, dma_buf_wsid, dma_buf_iova>>
bwvars  == <<h2a_bw, a2h_bw, perf>>
frame   == <<mode, desc, send_n, mmio_data, firstStatus, sawBusy>>
hostmem == <<allocated, hostPat, hostFlip>>
engine  == <<csr, primed, engQ, engBusy, devPat>>
mmiohis == <<wrLog, faults, afterFault, overlap>>
retvars == <<returned, ret>>
vars == <<pc, globals, sizes, bufvars, bwvars, num_errors, retvars, frame,
          hostmem, engine, mmiohis, events, releases, oob, cmpK>>

NoDesc == BuildDescriptor(0, W64(0), W64(0), 0)
IovaUninit == [hi |-> -1, lo |-> -1]
DUnset == [k |-> "unset", n |-> 0, d |-> 0]
NoStatus == -1
NotCompared == -1

Init ==
  /\ pc = "dma"
  /\ s_is_ase_sim = FALSE /\ s_mmio_buf = "NULL" /\ s_error_count = 0
  /\ transfer_size = 0 /\ test_buffer_size = 0 /\ dma_len = 0
  /\ test_buffer_word_size = 0 /\ num_errors = 0
  /\ dma_buf_ptr = "NULL" /\ dma_buf_wsid = "uninit" /\ dma_buf_iova = IovaUninit
  /\ h2a_bw = DUnset /\ a2h_bw = DUnset /\ perf = <<>>
  /\ returned = FALSE /\ ret = 0
  /\ mode = 0 /\ desc = NoDesc /\ send_n = 0 /\ mmio_data = 0
  /\ firstStatus = NoStatus /\ sawBusy = FALSE
  /\ allocated = FALSE /\ hostPat = 0 /\ hostFlip = {}
  /\ csr = [f \in 0..3 |-> W64(0)] /\ primed = FALSE /\ engQ = <<>>
  /\ engBusy = FALSE /\ devPat = 0
  /\ wrLog = <<>> /\ faults = 0 /\ afterFault = FALSE /\ overlap = FALSE
  /\ events = <<>> /\ releases = <<>> /\ oob = FALSE /\ cmpK = NotCompared

\* The results a register access may give: it fails at most MaxFaults times.
AccessResults == IF faults < MaxFaults THEN fpga_result ELSE {FPGA_OK}

\* The bookkeeping of one register access with result r.
NoteAccess(r) ==
  /\ faults' = IF r = FPGA_OK THEN faults ELSE faults + 1
  /\ afterFault' = (afterFault \/ faults > 0)

(* ------------------------------------------------------------------ *)
(* dma(): set the file-scope state, map the registers, run the test    *)
(* ------------------------------------------------------------------ *)
dma ==
  /\ pc = "dma"
  /\ \E is_ase_sim \in BOOLEAN, size \in TransferSizes, r \in fpga_result :
       /\ s_is_ase_sim' = is_ase_sim
       /\ transfer_size' = size
       /\ IF is_ase_sim
            THEN /\ r = FPGA_OK
                 /\ s_mmio_buf' = "NULL"
                 /\ pc' = "validate"
            ELSE IF r = FPGA_OK
                   THEN s_mmio_buf' = "mapped" /\ pc' = "validate"
                   ELSE s_mmio_buf' = "NULL" /\ pc' = "aborted"
  /\ UNCHANGED <<s_error_count, test_buffer_size, dma_len,
                 test_buffer_word_size, bufvars, bwvars, num_errors, retvars,
                 frame, hostmem, engine, mmiohis, events, releases, oob, cmpK>>

(* ------------------------------------------------------------------ *)
(* run_basic_ddr_dma_test                                              *)
(* ------------------------------------------------------------------ *)
\* The asserts on the size, then the derived sizes (lines 297..317).
validate ==
  /\ pc = "validate"
  /\ \E u \in UninitSizes :
       IF SizeAssertsHold(s_is_ase_sim, transfer_size, u)
         THEN /\ test_buffer_size' = transfer_size
              /\ dma_len' = DmaLen(transfer_size)
              /\ test_buffer_word_size' = transfer_size \div 8
              /\ pc' = "prepare"
         ELSE /\ pc' = "aborted"
              /\ UNCHANGED <<test_buffer_size, dma_len, test_buffer_word_size>>
  /\ UNCHANGED <<globals, transfer_size, bufvars, bwvars, num_errors, retvars,
                 frame, hostmem, engine, mmiohis, events, releases, oob, cmpK>>

\* fpgaPrepareBuffer, ON_ERR_GOTO, memset (lines 323..326).
PrepareBuffer ==
  /\ pc = "prepare"
  /\ \E res \in fpga_result :
       IF res # FPGA_OK
         THEN /\ s_error_count' = s_error_count + 1
              /\ pc' = "release_buf"
              /\ UNCHANGED <<dma_buf_ptr, dma_buf_wsid, hostmem, events>>
         ELSE /\ dma_buf_ptr' = "buf"
              /\ dma_buf_wsid' = "wsid"
              /\ allocated' = TRUE
              /\ hostPat' = 0
              /\ hostFlip' = {}
              /\ events' = Append(events, "prepare")
              /\ pc' = "get_io_address"
              /\ UNCHANGED s_error_count
  /\ UNCHANGED <<s_is_ase_sim, s_mmio_buf, sizes, dma_buf_iova, bwvars,
                 num_errors, retvars, frame, engine, mmiohis, releases, oob, cmpK>>

\* fpgaGetIOAddress, ON_ERR_GOTO (lines 330..331).
GetIOAddress ==
  /\ pc = "get_io_address"
  /\ \E res \in fpga_result, iova \in IovaValues :
       IF res # FPGA_OK
         THEN /\ s_error_count' = s_error_count + 1
              /\ pc' = "release_buf"
              /\ UNCHANGED dma_buf_iova
         ELSE /\ dma_buf_iova' = iova
              /\ pc' = "fill"
              /\ UNCHANGED s_error_count
  /\ UNCHANGED <<s_is_ase_sim, s_mmio_buf, sizes, dma_buf_ptr, dma_buf_wsid,
                 bwvars, num_errors, retvars, frame, hostmem, engine, mmiohis,
                 events, releases, oob, cmpK>>

\* for (i < test_buffer_word_size) dma_buf_ptr[i] = i (lines 333..335).
\* Words beyond DMA_BUFFER_SIZE are written outside the allocation: the
\* store faults or lands in whatever follows the buffer.
FillBuffer ==
  /\ pc = "fill"
  /\ hostPat' = test_buffer_word_size
  /\ events' = Append(events, "fill")
  /\ IF test_buffer_size > DMA_BUFFER_SIZE
       THEN oob' = TRUE /\ pc' \in {"h2d_transfer", "crashed"}
       ELSE oob' = oob /\ pc' = "h2d_transfer"
  /\ UNCHANGED <<globals, sizes, bufvars, bwvars, num_errors, retvars, frame,
                 allocated, hostFlip, engine, mmiohis, releases, cmpK>>

(* ------------------------------------------------------------------ *)
(* dma_transfer                                                        *)
(* ------------------------------------------------------------------ *)
\* The arguments of the two calls (lines 338 and 346).
TransferMode == IF pc = "h2d_transfer" THEN host_to_ddr ELSE ddr_to_host
HostAddress  == Or64(dma_buf_iova, DMA_HOST_MASK)
TransferSrc  == IF pc = "h2d_transfer" THEN HostAddress ELSE W64(0)
TransferDest == IF pc = "h2d_transfer" THEN W64(0) ELSE HostAddress

\* Entry: the alignment asserts and the descriptor (lines 231..258).
dma_transfer ==
  /\ pc \in {"h2d_transfer", "d2h_transfer"}
  /\ IF AlignAssertsHold(TransferSrc, TransferDest)
       THEN /\ mode' = TransferMode
            /\ desc' = BuildDescriptor(TransferMode, TransferSrc,
                                       TransferDest, dma_len)
            /\ pc' = "send_descriptor"
       ELSE /\ pc' = "aborted"
            /\ UNCHANGED <<mode, desc>>
  /\ send_n' = 0
  /\ mmio_data' = 0
  /\ firstStatus' = NoStatus
  /\ sawBusy' = FALSE
  /\ UNCHANGED <<globals, sizes, bufvars, bwvars, num_errors, retvars, hostmem,
                 engine, mmiohis, events, releases, oob, cmpK>>

\* What a register write that reached the engine does: it latches the
\* field; a write of the control field primes the engine the first time
\* and queues the latched descriptor the second time.
EngineWrite(f, v) ==
  LET latched == [csr EXCEPT ![f] = v]
  IN  /\ csr' = latched
      /\ IF f = 3
           THEN IF primed
                  THEN /\ primed' = FALSE
                       /\ engQ' = Append(engQ, latched)
                  ELSE /\ primed' = TRUE
                       /\ engQ' = engQ
           ELSE UNCHANGED <<primed, engQ>>

\* One fpgaWriteMMIO64 of send_descriptor; dma_transfer calls
\* send_descriptor twice, so eight writes (lines 209..218, 262..264).
\* The result of the write is not looked at.
send_descriptor ==
  /\ pc = "send_descriptor"
  /\ send_n < 2 * 4
  /\ LET f        == send_n % 4
         dev_addr == DMA_DESC_BASE + 8 * f
         v        == DescField(desc, f)
     IN  \E r \in AccessResults :
           /\ wrLog' = Append(wrLog, [mode |-> mode, addr |-> dev_addr,
                                      val |-> v])
           /\ NoteAccess(r)
           /\ IF r = FPGA_OK THEN EngineWrite(f, v)
                             ELSE UNCHANGED <<csr, primed, engQ>>
  /\ send_n' = send_n + 1
  /\ pc' = IF send_n' = 2 * 4 THEN "status" ELSE "send_descriptor"
  /\ UNCHANGED <<globals, sizes, bufvars, bwvars, num_errors, retvars, mode,
                 desc, mmio_data, firstStatus, sawBusy, hostmem, engBusy,
                 devPat, overlap, events, releases, oob, cmpK>>

\* The status word the engine shows: bit 0 is set while it executes.
StatusWord == IF engBusy THEN 1 ELSE 0

\* mmio_read64_silent of the status register, before the loop and in it
\* (lines 266..277): assert on the result, then the loop test.
mmio_read64_silent ==
  /\ pc = "status"
  /\ \E r \in AccessResults :
       /\ NoteAccess(r)
       /\ IF r # FPGA_OK
            THEN /\ pc' = "aborted"
                 /\ UNCHANGED <<mmio_data, firstStatus, sawBusy, overlap,
                                events>>
            ELSE /\ mmio_data' = StatusWord
                 /\ firstStatus' = IF firstStatus = NoStatus
                                     THEN StatusWord % 2 ELSE firstStatus
                 /\ sawBusy' = (sawBusy \/ StatusWord % 2 = 1)
                 /\ IF StillBusy(StatusWord)
                      THEN pc' = "status" /\ UNCHANGED <<overlap, events>>
                      ELSE /\ pc' = "transfer_done"
                           /\ overlap' = (overlap \/ engQ # <<>>)
                           /\ events' = Append(events,
                                 IF mode = host_to_ddr THEN "h2d_idle"
                                                       ELSE "d2h_idle")
  /\ UNCHANGED <<globals, sizes, bufvars, bwvars, num_errors, retvars, mode,
                 desc, send_n, hostmem, engine, wrLog, releases, oob, cmpK>>

\* The return of dma_transfer (lines 278..282): the apparent bandwidth is
\* printed only.
dma_transfer_return ==
  /\ pc = "transfer_done"
  /\ pc' = IF mode = host_to_ddr THEN "bw_h2a" ELSE "bw_a2h"
  /\ UNCHANGED <<globals, sizes, bufvars, bwvars, num_errors, retvars, frame,
                 hostmem, engine, mmiohis, events, releases, oob, cmpK>>

(* ------------------------------------------------------------------ *)
(* The engine                                                          *)
(* ------------------------------------------------------------------ *)
\* The engine takes the descriptor at the head of its queue.
EngineStart ==
  /\ engQ # <<>>
  /\ ~engBusy
  /\ engBusy' = TRUE
  /\ UNCHANGED <<pc, globals, sizes, bufvars, bwvars, num_errors, retvars, frame,
                 hostmem, csr, primed, engQ, devPat, mmiohis, events,
                 releases, oob, cmpK>>

\* The engine completes the descriptor it executes: len lines are copied,
\* from the host buffer to device memory or back.  On the way back up to
\* MaxCorrupt bytes may arrive inverted.  A length beyond the
\* allocation makes the engine touch host memory outside it.
EngineFinish ==
  /\ engBusy
  /\ LET d     == Head(engQ)
         m     == (d[3].lo \div (2 ^ MODE_SHIFT)) % 4
         lines == d[2].lo
         words == lines * (DMA_LINE_SIZE \div 8)
     IN  /\ IF allocated /\ m = host_to_ddr
              THEN devPat' = Min(hostPat, words)
              ELSE devPat' = devPat
         /\ IF allocated /\ m = ddr_to_host
              THEN /\ hostPat' = Min(devPat, words)
                   /\ hostFlip' \in SUBSET CorruptOffsets
              ELSE UNCHANGED <<hostPat, hostFlip>>
         /\ oob' = (oob \/ (allocated /\ lines > DMA_BUFFER_SIZE \div DMA_LINE_SIZE))
  /\ engQ' = Tail(engQ)
  /\ engBusy' = FALSE
  /\ UNCHANGED <<pc, globals, sizes, bufvars, bwvars, num_errors, retvars, frame,
                 allocated, csr, primed, mmiohis, events, releases, cmpK>>

(* ------------------------------------------------------------------ *)
(* get_bandwidth, as run_basic_ddr_dma_test calls it                   *)
(* ------------------------------------------------------------------ *)
\* The results of a readMMIO64: a direct read cannot fail, an indirect one
\* (s_mmio_buf == NULL) is an fpgaReadMMIO64 under an assert.
ReadResults == IF s_mmio_buf = "mapped" THEN {FPGA_OK} ELSE AccessResults

\* The counter word of a register get_bandwidth did not read.
Unread == -1

get_bandwidth_call ==
  /\ pc \in {"bw_h2a", "bw_a2h"}
  /\ \E rd \in CounterSamples, r1 \in ReadResults :
       IF r1 # FPGA_OK
         THEN /\ faults' = faults + 1
              /\ afterFault' = (afterFault \/ faults > 0)
              /\ pc' = "aborted"
              /\ UNCHANGED <<bwvars, events>>
         ELSE IF BelowMinimum(CounterBandwidth(CounterWord(rd)))
           THEN /\ perf' = <<CounterWord(rd), Unread>>
                /\ IF pc = "bw_h2a"
                     THEN h2a_bw' = DSentinel /\ UNCHANGED a2h_bw
                     ELSE a2h_bw' = DSentinel /\ UNCHANGED h2a_bw
                /\ afterFault' = (afterFault \/ faults > 0)
                /\ events' = Append(events, pc)
                /\ pc' = IF pc = "bw_h2a" THEN "memset" ELSE "bw_check"
                /\ UNCHANGED faults
           ELSE \E wr \in CounterSamples, r2 \in ReadResults :
                /\ afterFault' = (afterFault \/ faults > 0)
                /\ faults' = IF r2 = FPGA_OK THEN faults ELSE faults + 1
                /\ IF r2 # FPGA_OK
                     THEN pc' = "aborted" /\ UNCHANGED <<bwvars, events>>
                     ELSE /\ perf' = <<CounterWord(rd), CounterWord(wr)>>
                          /\ IF pc = "bw_h2a"
                               THEN /\ h2a_bw' = get_bandwidth(CounterWord(rd),
                                                               CounterWord(wr))
                                    /\ UNCHANGED a2h_bw
                               ELSE /\ a2h_bw' = get_bandwidth(CounterWord(rd),
                                                               CounterWord(wr))
                                    /\ UNCHANGED h2a_bw
                          /\ events' = Append(events, pc)
                          /\ pc' = IF pc = "bw_h2a" THEN "memset" ELSE "bw_check"
  /\ UNCHANGED <<globals, sizes, bufvars, num_errors, retvars, frame, hostmem,
                 engine, wrLog, overlap, releases, oob, cmpK>>

(* ------------------------------------------------------------------ *)
(* run_basic_ddr_dma_test, continued                                   *)
(* ------------------------------------------------------------------ *)
\* memset(dma_buf_ptr, 0, DMA_BUFFER_SIZE) between the transfers (line 343).
ZeroBuffer ==
  /\ pc = "memset"
  /\ hostPat' = 0
  /\ hostFlip' = {}
  /\ events' = Append(events, "memset")
  /\ perf' = <<>>
  /\ pc' = "d2h_transfer"
  /\ UNCHANGED <<globals, sizes, bufvars, h2a_bw, a2h_bw, num_errors, retvars,
                 frame, allocated, engine, mmiohis, releases, oob, cmpK>>

\* The check of the two bandwidths; return -1 (lines 351..354).
CheckBandwidth ==
  /\ pc = "bw_check"
  /\ IF BandwidthViolation(a2h_bw, h2a_bw)
       THEN returned' = TRUE /\ ret' = -1 /\ pc' = "done"
       ELSE UNCHANGED retvars /\ pc' = "compare"
  /\ perf' = <<>>
  /\ UNCHANGED <<globals, sizes, bufvars, h2a_bw, a2h_bw, num_errors, frame,
                 hostmem, engine, mmiohis, events, releases, oob, cmpK>>

\* The bytes memcmp may find different beyond the allocation: they are
\* not the buffer's, so any outcome is possible.
OutsideDiffs == IF test_buffer_size > DMA_BUFFER_SIZE THEN {0, 1} ELSE {0}

\* memcmp over test_buffer_size bytes and the count (lines 357..363).
CompareBuffer ==
  /\ pc = "compare"
  /\ \E outside \in OutsideDiffs :
       LET k == MismatchBytes(hostPat, hostFlip,
                              Min(test_buffer_size, DMA_BUFFER_SIZE)) + outside
       IN  /\ cmpK' = k
           /\ num_errors' = CountErrors(num_errors, k)
  /\ oob' = (oob \/ test_buffer_size > DMA_BUFFER_SIZE)
  /\ events' = Append(events, "compare")
  /\ pc' = "release_buf"
  /\ UNCHANGED <<globals, sizes, bufvars, bwvars, retvars, frame, hostmem,
                 engine, mmiohis, releases>>

\* release_buf: fpgaReleaseBuffer, return num_errors (lines 365..368).
release_buf ==
  /\ pc = "release_buf"
  /\ releases' = Append(releases, dma_buf_wsid)
  /\ allocated' = FALSE
  /\ returned' = TRUE
  /\ ret' = num_errors
  /\ pc' = "done"
  /\ UNCHANGED <<globals, sizes, bufvars, bwvars, num_errors, frame, hostPat,
                 hostFlip, engine, mmiohis, events, oob, cmpK>>

(* ------------------------------------------------------------------ *)
(* Properties                                                          *)
(* ------------------------------------------------------------------ *)
Occurred(e) == \E i \in 1..Len(events) : events[i] = e
WritesOf(m) == {i \in 1..Len(wrLog) : wrLog[i].mode = m}

\* C1: whenever run_basic_ddr_dma_test has returned after fpgaPrepareBuffer
\* succeeded, the buffer has been released (fpgaReleaseBuffer was called).
C1_ReleasedOnEveryReturn ==
  (returned /\ dma_buf_ptr = "buf") => (~allocated /\ Len(releases) >= 1)

\* C2: dma_transfer reports completion only if a status read of the call
\* had the busy bit set before the idle one: a first status read that is
\* idle does not complete the transfer.
C2_BusySeenBeforeCompletion ==
  pc = "transfer_done" => sawBusy

\* C3 (as stated): once the host-to-device measurement is the sentinel, the
\* buffer is not zeroed again and no device-to-host descriptor is written.
C3_AbortsAfterFirstMeasurement ==
  DIsSentinel(h2a_bw) => (~Occurred("memset") /\ WritesOf(ddr_to_host) = {})

\* C3 (amended): when the host-to-device measurement is the sentinel the
\* test goes on: it zeroes the buffer, writes the device-to-host descriptor
\* (eight register writes) and measures again; only then it returns -1,
\* without comparing the data.
C3_AbortsAfterSecondMeasurement ==
  (returned /\ DIsSentinel(h2a_bw)) =>
     /\ ret = -1
     /\ cmpK = NotCompared
     /\ Occurred("memset")
     /\ Cardinality(WritesOf(ddr_to_host)) = 8
     /\ Occurred("bw_a2h")

C3_Witness ==
  returned /\ DIsSentinel(h2a_bw) /\ ~DIsSentinel(a2h_bw) /\ ret = -1

\* C4: when fpgaPrepareBuffer or fpgaGetIOAddress has failed, s_error_count
\* was incremented, no descriptor register is written and the function does
\* not return 0.
C4_AllocationFailurePropagates ==
  LET failed == /\ cmpK = NotCompared
                /\ (pc = "release_buf" \/ (returned /\ Len(releases) >= 1))
  IN  failed => /\ s_error_count > 0
                /\ wrLog = <<>>
                /\ (returned => ret # 0)

\* C5: no register access is made after a register access has failed.
C5_NoAccessAfterFailure ==
  ~afterFault

\* C6: when both bandwidth checks passed and the data was compared, the
\* value returned is the number of bytes that differ: 0 when none does, k
\* when exactly k do.
C6_ReturnsMismatchCount ==
  (returned /\ cmpK # NotCompared) => ret = cmpK

\* C7: a transfer_size above the capacity of the execution mode gets no
\* further than the validation: no buffer is prepared, no register written.
C7_OversizeRejected ==
  LET cap == IF s_is_ase_sim THEN TEST_BUFFER_SIZE_ASE ELSE TEST_BUFFER_SIZE_HW
  IN  (pc # "dma" /\ transfer_size > cap) =>
         (pc \in {"validate", "aborted"} /\ dma_buf_ptr = "NULL" /\ wrLog = <<>>)

\* C8: a descriptor field is written only when the source and destination
\* of the call are multiples of 64: a misaligned address is rejected before
\* the first register write, and every source or destination address
\* written to the descriptor registers is a multiple of 64.
C8_AlignedDescriptors ==
  /\ \A i \in 1..Len(wrLog) :
       wrLog[i].addr \in {8 * DMA_CSR_IDX_SRC_ADDR, 8 * DMA_CSR_IDX_DEST_ADDR}
         => Mod64(wrLog[i].val) = 0
  /\ (dma_buf_iova # IovaUninit /\ Mod64(dma_buf_iova) # 0) => wrLog = <<>>

C8_Witness ==
  /\ pc = "aborted"
  /\ dma_buf_iova # IovaUninit
  /\ Mod64(dma_buf_iova) # 0
  /\ wrLog = <<>>
  /\ hostPat = test_buffer_word_size /\ test_buffer_word_size > 0

\* The measurement get_bandwidth has just returned, and the bandwidths of
\* the counter words it read.
JustMeasured == perf # <<>>
LastBandwidth == IF Occurred("bw_a2h") THEN a2h_bw ELSE h2a_bw
LastReadBandwidth == CounterBandwidth(perf[1])
LastWriteBandwidth == CounterBandwidth(perf[2])

\* C9: get_bandwidth returns the sentinel whenever the read-side or the
\* write-side bandwidth is below the minimum, and returns another value
\* only when both bandwidths are at or above the minimum.
C9_SentinelIffBelowMinimum ==
  JustMeasured =>
    /\ (BelowMinimum(LastReadBandwidth)
          \/ (perf[2] # Unread /\ BelowMinimum(LastWriteBandwidth)))
         => DIsSentinel(LastBandwidth)
    /\ ~DIsSentinel(LastBandwidth)
         => /\ perf[2] # Unread
            /\ DAtLeast(LastReadBandwidth, MIN_TRPT_GBPS)
            /\ DAtLeast(LastWriteBandwidth, MIN_TRPT_GBPS)

\* C10: a counter word whose clock count is 0 never yields an infinite or
\* undefined (NaN) bandwidth: every measurement the test holds is a number
\* or the sentinel, so no such sample is taken for a bandwidth that met
\* the minimum.
C10_ZeroCyclesIsNoActivity ==
  /\ h2a_bw.k \in {"unset", "num"}
  /\ a2h_bw.k \in {"unset", "num"}

\* A run in which the engine copied faithfully and the counters met the
\* minimum: every register access succeeded, each dma_transfer returned
\* with its descriptor completed, no byte came back inverted, and both
\* measurements are numbers at or above the minimum.
FaithfulRun ==
  /\ faults = 0
  /\ ~overlap
  /\ hostFlip = {}
  /\ h2a_bw.k = "num" /\ ~DIsSentinel(h2a_bw)
  /\ a2h_bw.k = "num" /\ ~DIsSentinel(a2h_bw)

\* C11: with a faithful engine and counters that meet the minimum, for every
\* accepted transfer_size the host buffer holds word[i] = i for every i below
\* transfer_size / 8 after the round trip, and run_basic_ddr_dma_test
\* returns 0.
C11_RoundTripRestoresPattern ==
  (returned /\ cmpK # NotCompared /\ FaithfulRun) =>
     (ret = 0 /\ cmpK = 0 /\ hostPat = test_buffer_word_size)

\* The engine still holds a descriptor of the host-to-device transfer,
\* queued or in execution.
H2DInFlight ==
  \E i \in 1..Len(engQ) :
     (engQ[i][3].lo \div (2 ^ MODE_SHIFT)) % 4 = host_to_ddr

\* C12: at most one descriptor is in flight: the host buffer is not zeroed
\* and no register of the device-to-host descriptor is written while the
\* engine still holds the host-to-device descriptor, whenever the engine
\* raises and clears its busy bit.
C12_OneDescriptorInFlight ==
  /\ Len(engQ) <= 1
  /\ (Occurred("memset") \/ WritesOf(ddr_to_host) # {}) => ~H2DInFlight

\* The descriptor of the dma_transfer call of mode m, from the arguments
\* run_basic_ddr_dma_test passes.
DescriptorOf(m) ==
  BuildDescriptor(m, IF m = host_to_ddr THEN HostAddress ELSE W64(0),
                     IF m = host_to_ddr THEN W64(0) ELSE HostAddress, dma_len)

\* C13: every dma_transfer call writes its descriptor as two consecutive
\* passes of four register writes: source, destination, length, control, in
\* that order, at the byte offsets base, base + 8, base + 16, base + 24 with
\* base = 8 * DMA_CSR_IDX_SRC_ADDR; the second pass repeats the values of
\* the first, and the status register is first read only when all eight
\* writes of the call have been made.
C13_TwoOrderedPasses ==
  /\ Len(wrLog) <= 2 * 8
  /\ \A i \in 1..Len(wrLog) :
       LET k == (i - 1) % 8
           m == IF i <= 8 THEN host_to_ddr ELSE ddr_to_host
           d == DescriptorOf(m)
       IN  /\ wrLog[i].mode = m
           /\ wrLog[i].addr = 8 * DMA_CSR_IDX_SRC_ADDR + 8 * (k % 4)
           /\ wrLog[i].val =
                <<d.src_address, d.dest_address, d.len, d.control>>[(k % 4) + 1]
           /\ (k >= 4 => wrLog[i].val = wrLog[i - 4].val)
  /\ (firstStatus # NoStatus \/ pc \in {"status", "transfer_done"}) =>
        /\ send_n = 8
        /\ Len(wrLog) = (IF mode = host_to_ddr THEN 8 ELSE 16)
  /\ Occurred("h2d_idle") => Len(wrLog) >= 8
  /\ Occurred("d2h_idle") => Len(wrLog) = 16

C13_Witness ==
  /\ pc = "status"
  /\ firstStatus = NoStatus
  /\ mode = ddr_to_host
  /\ Len(wrLog) = 16
  /\ wrLog[9].val # wrLog[10].val

\* The position of milestone e in the run, 0 when it has not occurred.
EventIndex(e) ==
  IF Occurred(e) THEN CHOOSE i \in 1..Len(events) : events[i] = e ELSE 0

\* C14: the host buffer is zeroed after the host-to-device transfer was seen
\* idle and before the first register write of the device-to-host
\* descriptor; the host writes the buffer at no later point, and every byte
\* the final comparison reads lies in the range that was zeroed, so that a
\* non-zero byte compared can only come from the device.
C14_ZeroedBetweenTransfers ==
  /\ Occurred("memset") =>
        /\ 0 < EventIndex("h2d_idle")
        /\ EventIndex("h2d_idle") < EventIndex("memset")
        /\ \A i \in 1..Len(events) :
              i > EventIndex("memset") =>
                 events[i] \notin {"prepare", "fill", "memset"}
  /\ WritesOf(ddr_to_host) # {} => Occurred("memset")
  /\ (Occurred("memset") /\ WritesOf(ddr_to_host) = {}) =>
        (hostPat = 0 /\ hostFlip = {})
  /\ Occurred("compare") =>
        /\ EventIndex("memset") < EventIndex("compare")
        /\ test_buffer_size <= DMA_BUFFER_SIZE

\* C15: run_basic_ddr_dma_test returns a negative value exactly when one of
\* its two bandwidth measurements was the sentinel; in that case the data
\* was not compared and no mismatch was counted.
C15_NegativeIffSentinel ==
  returned =>
     /\ (ret < 0) <=> (DIsSentinel(h2a_bw) \/ DIsSentinel(a2h_bw))
     /\ (ret < 0) => /\ cmpK = NotCompared
                     /\ ~Occurred("compare")
                     /\ num_errors = 0

C15_Witness ==
  /\ returned
  /\ ret < 0
  /\ DIsSentinel(a2h_bw)
  /\ ~DIsSentinel(h2a_bw)
  /\ cmpK = NotCompared

\* C16: a transfer_size that is not a multiple of 64 gets no further than
\* the validation: fpgaPrepareBuffer is not called, no buffer is released
\* and no register is written or read.
C16_UnalignedSizeRejected ==
  (pc # "dma" /\ transfer_size % 64 # 0) =>
     /\ pc \in {"validate", "aborted"}
     /\ ~Occurred("prepare")
     /\ dma_buf_ptr = "NULL"
     /\ s_error_count = 0
     /\ wrLog = <<>>
     /\ faults = 0
     /\ releases = <<>>
     /\ ~returned

C16_Witness ==
  /\ pc = "aborted"
  /\ transfer_size % 64 # 0
  /\ transfer_size <= TEST_BUFFER_SIZE_ASE
  /\ s_is_ase_sim
  /\ wrLog = <<>>

\* C17: dma_transfer returns only after a status read whose bit 0 is 0;
\* while the status reads busy the driver stays in the polling loop (there
\* is no timeout, only the assert on a failed read ends it); and when the
\* engine does complete its descriptors, every dma_transfer leaves the loop
\* and the whole test comes to an end.
C17_PollsUntilIdle ==
  /\ [](pc = "transfer_done" => (firstStatus # NoStatus /\ mmio_data % 2 = 0))
  /\ [][(pc = "status" /\ engBusy) => pc' \in {"status", "aborted"}]_vars
  /\ [](pc = "status" => <>(pc # "status"))
  /\ <>(pc \in {"done", "aborted", "crashed"})

C17_Witness ==
  /\ pc = "transfer_done"
  /\ sawBusy
  /\ firstStatus = 1
  /\ mmio_data % 2 = 0
  /\ mode = ddr_to_host

\* C18: right after the validation accepted a transfer_size within the
\* cap, dma_len is the ceiling of transfer_size / 64, so that dma_len lines
\* are exactly transfer_size bytes; for 2097152 bytes it is 32768.
C18_LengthIsCeiling ==
  (pc = "prepare" /\ transfer_size <= TEST_BUFFER_SIZE_ASE) =>
     /\ dma_len = (transfer_size + DMA_LINE_SIZE - 1) \div DMA_LINE_SIZE
     /\ dma_len * DMA_LINE_SIZE = transfer_size
     /\ (transfer_size = 2097152 => dma_len = 32768)

\* C19: every host-buffer byte the test touches lies inside the allocation
\* of DMA_BUFFER_SIZE bytes: the words the fill loop writes, the dma_len
\* lines the device-to-host descriptor asks the engine to write, and the
\* bytes the final comparison reads.
C19_AccessesInsideAllocation ==
  /\ Occurred("fill") => test_buffer_word_size * 8 <= DMA_BUFFER_SIZE
  /\ WritesOf(ddr_to_host) # {} =>
        dma_len <= DMA_BUFFER_SIZE \div DMA_LINE_SIZE
  /\ Occurred("compare") => test_buffer_size <= DMA_BUFFER_SIZE

\* C20: fpgaReleaseBuffer is called at most once, and only with the
\* workspace id a successful fpgaPrepareBuffer returned: after a failed
\* fpgaPrepareBuffer no release is made.
C20_ReleaseOnlyWhatWasPrepared ==
  /\ Len(releases) <= 1
  /\ \A i \in 1..Len(releases) :
        releases[i] = "wsid" /\ Occurred("prepare")

Next ==
  \/ dma
  \/ validate
  \/ PrepareBuffer
  \/ GetIOAddress
  \/ FillBuffer
  \/ dma_transfer
  \/ send_descriptor
  \/ mmio_read64_silent
  \/ dma_transfer_return
  \/ EngineStart
  \/ EngineFinish
  \/ get_bandwidth_call
  \/ ZeroBuffer
  \/ CheckBandwidth
  \/ CompareBuffer
  \/ release_buf

Spec == Init /\ [][Next]_vars

\* The steps of the driver, and the behaviours in which the driver keeps
\* running and the engine starts and completes every descriptor it holds.
Driver ==
  \/ dma
  \/ validate
  \/ PrepareBuffer
  \/ GetIOAddress
  \/ FillBuffer
  \/ dma_transfer
  \/ send_descriptor
  \/ mmio_read64_silent
  \/ dma_transfer_return
  \/ get_bandwidth_call
  \/ ZeroBuffer
  \/ CheckBandwidth
  \/ CompareBuffer
  \/ release_buf

SpecLive ==
  /\ Init
  /\ [][Next]_vars
  /\ WF_vars(Driver)
  /\ WF_vars(EngineStart)
  /\ WF_vars(EngineFinish)
====
